---------------------------- MODULE Spec2Model ----------------------------
(***************************************************************************)
(* Model of the two core effects of the audio-processing toolbox:          *)
(*   effects/doppler.py      DopplerEffect                                 *)
(*   effects/enhanced_am.py  EnhancedAMEffect                              *)
(*                                                                         *)
(* Numbers.  Velocities, rates and frequencies are integers.  A Python     *)
(* number and a numpy scalar divide differently (ZeroDivisionError against *)
(* inf/nan), so a stored velocity carries the flag speed_np.  Spectra are  *)
(* symbolic: bin j of the working spectrum holds the tag j+1 when the      *)
(* input has energy there and 0 when it has none; multiplying by the       *)
(* boolean mask keeps the tag or gives 0.                                  *)
(***************************************************************************)
EXTENDS Integers, Sequences, FiniteSets, TLC

VARIABLES
    eff,          \* which effect object is under test: "doppler", "am", "rate"
    dop,          \* fields of the DopplerEffect instance
    am,           \* fields of the EnhancedAMEffect instance
    rng,          \* the global numpy.random generator: [seed, draws]
    kept,         \* a call's inputs and output kept by the caller for comparison
    wave,         \* a channel taken through the rate converter: [x, up, down, stage]
    pc,           \* position of the process call in progress ("idle" when none)
    audio,        \* the buffer passed to process: [n, chans]
    samplerate,   \* the sample rate passed to process
    cur,          \* the channel being worked on
    processed,    \* processed_channels / processed_wave
    result,       \* outcome of the last completed process call
    stages,       \* per channel of an AM call: the stages it entered, in order
    before        \* the fields and the generator as a caller noted them before a call

vars == <<eff, wave, dop, am, rng, kept, pc, audio, samplerate, cur, processed, result,
         stages, before>>

-----------------------------------------------------------------------------
(* Bounds of the model *)

MaxChannels == 2
MaxSamples == 5
MaxAMSamples == 2
MaxDraws == 4
MaxWave == 18

-----------------------------------------------------------------------------
(* Small arithmetic *)

Max2(a, b) == IF a >= b THEN a ELSE b
Min2(a, b) == IF a <= b THEN a ELSE b

\* numpy.round of the rational p/q (q > 0): round half to even
RoundHalfEven(p, q) ==
    LET fl == p \div q
        r  == p % q
    IN  IF 2 * r < q THEN fl
        ELSE IF 2 * r > q THEN fl + 1
        ELSE IF fl % 2 = 0 THEN fl ELSE fl + 1

\* numpy.clip(x, lo, hi)
np_clip(x, lo, hi) == Max2(lo, Min2(x, hi))

\* len(waveform[::k]) for k >= 1
StrideLen(len, k) == (len + k - 1) \div k

-----------------------------------------------------------------------------
(* DopplerEffect: parameters *)

\* values a caller passes for speed, sound_speed, oversample_rate and
\* freq_shift_range (constructor keywords or set_params)
SpeedValues == {-100, 0, 30, 100, 343}
SoundSpeedValues == {100, 343}
RateValues == {1, 2, 3, 4}
RangeValues == {<<20, 15000>>, <<0, 40>>}

valid_rates == {1, 2, 4, 8, 16}
SpeedLo == -100
SpeedHi == 100
DefaultRate == 4

\* __init__: the defaults, then every keyword that names an attribute is
\* stored as given (setattr, no validation); Python numbers, so speed_np is
\* FALSE.  sample_rate is not assigned here (0 stands for "not yet set").
DopplerEffect_init(speed, sound_speed, oversample_enable, oversample_rate, freq_shift_range) ==
    [speed |-> speed, speed_np |-> FALSE, sound_speed |-> sound_speed,
     oversample_enable |-> oversample_enable, oversample_rate |-> oversample_rate,
     freq_shift_range |-> freq_shift_range, sample_rate |-> 0]

DopplerDefault == DopplerEffect_init(30, 343, TRUE, 4, <<20, 15000>>)

\* set_params for one keyword: speed is clipped by numpy.clip (which returns a
\* numpy scalar), oversample_rate outside valid_rates becomes 4, every other
\* attribute is stored as given.
DopplerEffect_set_params(self, param_name, param_value) ==
    IF param_name = "speed"
    THEN [self EXCEPT !.speed = np_clip(param_value, SpeedLo, SpeedHi), !.speed_np = TRUE]
    ELSE IF param_name = "oversample_rate"
    THEN [self EXCEPT !.oversample_rate =
              IF param_value \in valid_rates THEN param_value ELSE DefaultRate]
    ELSE IF param_name = "sound_speed"
    THEN [self EXCEPT !.sound_speed = param_value]
    ELSE IF param_name = "oversample_enable"
    THEN [self EXCEPT !.oversample_enable = param_value]
    ELSE [self EXCEPT !.freq_shift_range = param_value]

-----------------------------------------------------------------------------
(* DopplerEffect: the frequency-domain stage *)

\* doppler_factor with the sign of the velocity slipped: c / (c + v)
doppler_factor_sign_slip(self) ==
    LET den == self.sound_speed + self.speed IN
    IF den = 0
    THEN [k |-> IF self.speed_np THEN "inf" ELSE "raise", n |-> 0, d |-> 1]
    ELSE IF den > 0
    THEN [k |-> "fin", n |-> self.sound_speed, d |-> den]
    ELSE [k |-> "fin", n |-> -self.sound_speed, d |-> -den]

\* doppler_factor = sound_speed / (sound_speed - speed):
\*   "fin"   the rational n/d with d > 0
\*   "raise" ZeroDivisionError (both operands Python numbers)
\*   "inf"   numpy division by zero: inf with a warning, no exception
doppler_factor(self) ==
    LET den == self.sound_speed - self.speed IN
    IF den = 0
    THEN [k |-> IF self.speed_np THEN "inf" ELSE "raise", n |-> 0, d |-> 1]
    ELSE IF den > 0
    THEN [k |-> "fin", n |-> self.sound_speed, d |-> den]
    ELSE [k |-> "fin", n |-> -self.sound_speed, d |-> -den]

\* numpy.fft.fftfreq(N, 1/sample_rate)[i] = fftfreq_num(N, i) * sample_rate / N
fftfreq_num(N, i) == IF i <= (N - 1) \div 2 THEN i ELSE i - N

\* _validate_freq_range without the 20 Hz floor on the lower bound
validate_freq_range_no_floor(self, N, i) ==
    LET sr == self.sample_rate
        fi == fftfreq_num(N, i)
        upper2 == Min2(2 * self.freq_shift_range[2], sr - 2)
    IN  fi * sr >= self.freq_shift_range[1] * N /\ 2 * fi * sr <= upper2 * N

\* _validate_freq_range: freq_mask[i] for bin i of an N-point spectrum.
\* Frequencies are compared as rationals (cross-multiplied, all divisors > 0).
validate_freq_range(self, N, i) ==
    LET sr == self.sample_rate
        f  == doppler_factor(self)
        fi == fftfreq_num(N, i)
        valid_lower == Max2(self.freq_shift_range[1], 20)
        \* twice valid_upper = min(freq_shift_range[1], nyquist - 1)
        upper2 == Min2(2 * self.freq_shift_range[2], sr - 2)
        \* max_shifted_freq > nyquist_freq
        shrink == IF f.k = "inf" THEN upper2 > 0 ELSE upper2 * f.n > sr * f.d
        below_upper ==
            IF shrink
            THEN (IF f.k = "inf" THEN fi <= 0 ELSE 2 * fi * f.n <= N * f.d)
            ELSE 2 * fi * sr <= upper2 * N
    IN  fi * sr >= valid_lower * N /\ below_upper

\* scaled_indices[i] = round(i * doppler_factor).astype(int).  For an infinite
\* factor the product is nan (i = 0) or inf (i > 0) and the cast to int is
\* undefined: castNaN and castInf are whatever the build produces.
scaled_index(f, i, castNaN, castInf) ==
    IF f.k = "inf" THEN (IF i = 0 THEN castNaN ELSE castInf)
    ELSE RoundHalfEven(i * f.n, f.d)

\* what the cast of nan or inf to int may give: an index below the range, the
\* first, the last, or one past the end (only an infinite factor needs a cast
\* of a non-finite value)
CastOutcomes(self, N) ==
    IF doppler_factor(self).k = "inf" THEN {-1, 0, N - 1, N} ELSE {0}

valid_index(f, N, i, castNaN, castInf) ==
    LET s == scaled_index(f, i, castNaN, castInf) IN s >= 0 /\ s < N

\* last_source with the first assignment staying instead of the last
first_source(f, N, d, castNaN, castInf) ==
    LET srcs == {i \in 0..(N - 1) : valid_index(f, N, i, castNaN, castInf)
                                    /\ scaled_index(f, i, castNaN, castInf) = d}
    IN  IF srcs = {} THEN -1 ELSE CHOOSE i \in srcs : \A j \in srcs : j >= i

\* the source index whose value remains at destination d after the indexed
\* assignment (repeated indices: the last assignment stays); -1 when none
last_source(f, N, d, castNaN, castInf) ==
    LET srcs == {i \in 0..(N - 1) : valid_index(f, N, i, castNaN, castInf)
                                    /\ scaled_index(f, i, castNaN, castInf) = d}
    IN  IF srcs = {} THEN -1 ELSE CHOOSE i \in srcs : \A j \in srcs : j <= i

\* shifted_fft for the spectrum fft_wave (a sequence of N tags, index i+1 for bin i)
shifted_fft(self, fft_wave, castNaN, castInf) ==
    LET N == Len(fft_wave)
        f == doppler_factor(self)
    IN  [d1 \in 1..N |->
            LET i == last_source(f, N, d1 - 1, castNaN, castInf) IN
            IF i = -1 THEN 0
            ELSE IF validate_freq_range(self, N, i) THEN fft_wave[i + 1] ELSE 0]

\* numpy.fft.fft of the working channel, symbolically: the channel came from an
\* input of n samples (tone = 0: energy in every bin; tone = t: a real tone on
\* bin t, energy on bins t and n - t), zero-stuffed to N = n * k samples, which
\* repeats the input spectrum every n bins.
fft_wave_of(n, tone, N) ==
    [j1 \in 1..N |->
        IF tone = 0 \/ (j1 - 1) % n = tone \/ (j1 - 1) % n = n - tone THEN j1 ELSE 0]

\* _doppler_freq_shift on a working channel of N samples
doppler_freq_shift(self, n, tone, N, castNaN, castInf) ==
    IF N = 0 THEN [exc |-> "ValueError", shifted |-> <<>>]
    ELSE IF doppler_factor(self).k = "raise"
    THEN [exc |-> "ZeroDivisionError", shifted |-> <<>>]
    ELSE [exc |-> "none",
          shifted |-> shifted_fft(self, fft_wave_of(n, tone, N), castNaN, castInf)]

\* scipy.signal.firwin(31, cutoff = 1/oversample_rate) accepts only 0 < cutoff < 1
firwin_ok(k) == k > 1

-----------------------------------------------------------------------------
(* DopplerEffect.process, one step per stage of the channel loop *)

NoAudio == [n |-> 0, chans |-> <<>>]
NoChannel == [len |-> 0, shifted |-> <<>>]
NoResult == [status |-> "none", exc |-> "", out |-> <<>>]
Raised(e) == [status |-> "error", exc |-> e, out |-> <<>>]

Tones(n) == 0..((n - 1) \div 2)
Buffers ==
    {[n |-> n, chans |-> ch] :
        n \in 0..MaxSamples,
        ch \in UNION {[1..c -> 0..((MaxSamples - 1) \div 2)] : c \in 1..MaxChannels}}
ValidBuffer(a) == \A c \in 1..Len(a.chans) : a.chans[c] \in Tones(a.n) \/ a.chans[c] = 0

DopplerRates == {128}

\* every stored field of the two effects and the global generator, as the
\* caller could read them at this moment
Fields == [dop |-> dop, am |-> am, rng |-> rng]
NoStages == <<>>
NoBefore == <<>>

\* process up to the channel loop: the rate is stored, the output list is empty
DopplerEnter(a, sr) ==
    /\ eff = "doppler" /\ pc = "idle" /\ result = NoResult
    /\ ValidBuffer(a)
    /\ audio' = a /\ samplerate' = sr
    /\ dop' = [dop EXCEPT !.sample_rate = sr]
    /\ processed' = <<>>
    /\ pc' = IF Len(a.chans) > 0 THEN "dop_oversample" ELSE "dop_return"
    /\ cur' = NoChannel
    /\ UNCHANGED <<stages, eff, wave, am, rng, kept, result>>

DopplerProcess(a, sr) == DopplerEnter(a, sr) /\ UNCHANGED before

\* the same call made by a caller that first notes every field
DopplerProcessWatched(a, sr) == DopplerEnter(a, sr) /\ before' = <<Fields>>

DopplerOversample ==
    /\ pc = "dop_oversample"
    /\ IF dop.oversample_enable
       THEN /\ dop' = [dop EXCEPT !.sample_rate = dop.sample_rate * dop.oversample_rate]
            /\ IF firwin_ok(dop.oversample_rate)
               THEN /\ cur' = [len |-> audio.n * dop.oversample_rate, shifted |-> <<>>]
                    /\ pc' = "dop_shift"
                    /\ UNCHANGED <<result, processed>>
               ELSE /\ result' = Raised("ValueError")
                    /\ pc' = "idle"
                    /\ processed' = <<>>
                    /\ UNCHANGED cur
       ELSE /\ cur' = [len |-> audio.n, shifted |-> <<>>]
            /\ pc' = "dop_shift"
            /\ UNCHANGED <<dop, result, processed>>
    /\ UNCHANGED <<stages, before, eff, wave, am, rng, kept, audio, samplerate>>

DopplerShift ==
    /\ pc = "dop_shift"
    /\ \E castNaN \in CastOutcomes(dop, cur.len), castInf \in CastOutcomes(dop, cur.len) :
         LET r == doppler_freq_shift(dop, audio.n, audio.chans[Len(processed) + 1],
                                     cur.len, castNaN, castInf)
         IN  IF r.exc = "none"
             THEN /\ cur' = [cur EXCEPT !.shifted = r.shifted]
                  /\ pc' = "dop_downsample"
                  /\ UNCHANGED <<result, processed>>
             ELSE /\ result' = Raised(r.exc)
                  /\ pc' = "idle"
                  /\ processed' = <<>>
                  /\ UNCHANGED cur
    /\ UNCHANGED <<stages, before, eff, wave, am, rng, kept, dop, audio, samplerate>>

\* DopplerDownsample without the division that restores sample_rate
DopplerDownsample_no_restore ==
    /\ pc = "dop_downsample"
    /\ IF dop.oversample_enable
       THEN /\ processed' = Append(processed,
                  [cur EXCEPT !.len = StrideLen(cur.len, dop.oversample_rate)])
            /\ UNCHANGED dop
       ELSE /\ processed' = Append(processed, cur)
            /\ UNCHANGED dop
    /\ pc' = IF Len(processed') < Len(audio.chans) THEN "dop_oversample" ELSE "dop_return"
    /\ UNCHANGED <<stages, before, eff, wave, am, rng, kept, audio, samplerate, cur, result>>

DopplerDownsample ==
    /\ pc = "dop_downsample"
    /\ IF dop.oversample_enable
       THEN /\ processed' = Append(processed,
                  [cur EXCEPT !.len = StrideLen(cur.len, dop.oversample_rate)])
            /\ dop' = [dop EXCEPT !.sample_rate = dop.sample_rate \div dop.oversample_rate]
       ELSE /\ processed' = Append(processed, cur)
            /\ UNCHANGED dop
    /\ pc' = IF Len(processed') < Len(audio.chans) THEN "dop_oversample" ELSE "dop_return"
    /\ UNCHANGED <<stages, before, eff, wave, am, rng, kept, audio, samplerate, cur, result>>

DopplerReturn ==
    /\ pc = "dop_return"
    /\ result' = [status |-> "ok", exc |-> "", out |-> processed]
    /\ pc' = "idle"
    /\ UNCHANGED <<stages, before, eff, wave, am, rng, kept, dop, audio, samplerate, cur, processed>>

DopplerSetParams(param_name, param_value) ==
    /\ eff = "doppler" /\ pc = "idle" /\ result = NoResult
    /\ dop' = DopplerEffect_set_params(dop, param_name, param_value)
    /\ UNCHANGED <<stages, before, eff, wave, am, rng, kept, pc, audio, samplerate, cur, processed, result>>

-----------------------------------------------------------------------------
(* EnhancedAMEffect: parameters.  modulation_index is held in tenths (7 is  *)
(* 0.7); frequencies and rates in Hz; noise_snr in dB.                      *)

ModIndexValues == {0, 7, 15}
ModeValues == {"standard", "dsb-sc", "ssb", "fm"}
SnrValues == {35, 50}
CarrierValues == {10000, 30000}
AMRates == {8000, 44100}
\* values a caller stores in the sample_rate attribute with set_params
StoredRateValues == {0, 8000}
Seeds == {1, 2}

\* __init__: the defaults, then every keyword that names an attribute is stored
\* as given
EnhancedAMEffect_init(carrier_freq, modulation_index, am_mode, noise_snr, pre_emphasis) ==
    [carrier_freq |-> carrier_freq, modulation_index |-> modulation_index,
     sample_rate |-> 44100, am_mode |-> am_mode, noise_snr |-> noise_snr,
     pre_emphasis |-> pre_emphasis]

AMDefault == EnhancedAMEffect_init(10000, 7, "standard", 35, TRUE)

\* set_params for one keyword
EnhancedAMEffect_set_params(self, param_name, param_value) ==
    IF param_name = "modulation_index"
    THEN [self EXCEPT !.modulation_index = np_clip(param_value, 0, 10)]
    ELSE IF param_name = "noise_snr"
    THEN [self EXCEPT !.noise_snr = np_clip(param_value, 0, 40)]
    ELSE IF param_name = "am_mode"
    THEN [self EXCEPT !.am_mode =
              IF param_value \in {"standard", "dsb-sc", "ssb"} THEN param_value
              ELSE "standard"]
    ELSE IF param_name = "carrier_freq" /\ self.sample_rate # 0
    THEN [self EXCEPT !.carrier_freq =
              np_clip(param_value, 20, self.sample_rate \div 2 - 100)]
    ELSE IF param_name = "carrier_freq"
    THEN [self EXCEPT !.carrier_freq = param_value]
    ELSE IF param_name = "sample_rate"
    THEN [self EXCEPT !.sample_rate = param_value]
    ELSE [self EXCEPT !.pre_emphasis = param_value]

-----------------------------------------------------------------------------
(* EnhancedAMEffect: the stages.  A channel's samples are followed by class: *)
(*   "zero"       every sample is 0                                          *)
(*   "fin"        finite, not all 0                                          *)
(*   "nonfinite"  NaN or Inf samples                                         *)
(* A linear filter and a product with a carrier keep "zero" and keep "fin".  *)

\* scipy.signal.butter(..., Wn, fs=fs) raises ValueError unless 0 < Wn < fs/2
butter_ok(Wn, fs) == 0 < Wn /\ 2 * Wn < fs

\* _preprocess_audio: numpy.max of an empty channel raises; a zero peak skips
\* the division; pre-emphasis designs a 3 kHz high-pass
preprocess_audio(self, n, peak) ==
    IF n = 0 THEN [exc |-> "ValueError", cls |-> "zero"]
    ELSE IF self.pre_emphasis /\ ~butter_ok(3000, self.sample_rate)
    THEN [exc |-> "ValueError", cls |-> "zero"]
    ELSE [exc |-> "none", cls |-> IF peak = 0 THEN "zero" ELSE "fin"]

\* _generate_carrier draws the frequency offset and the phase offset
carrier_draws == 2

\* _am_modulate up to the noise: the modulated signal per mode
modulate_signal(self, cls) ==
    LET suppressed == IF self.modulation_index = 0 \/ cls = "zero" THEN "zero" ELSE "fin" IN
    IF self.am_mode = "standard" THEN [exc |-> "none", cls |-> "fin"]
    ELSE IF self.am_mode = "dsb-sc" THEN [exc |-> "none", cls |-> suppressed]
    ELSE IF self.am_mode = "ssb"
    THEN (IF butter_ok(self.carrier_freq, self.sample_rate)
          THEN [exc |-> "none", cls |-> suppressed]
          ELSE [exc |-> "ValueError", cls |-> "zero"])
    ELSE [exc |-> "UnboundLocalError", cls |-> "zero"]

\* _am_modulate: carrier, modulation, then noise of power signal_power/10^(snr/10)
\* (n normal draws; zero signal power gives zero noise)
am_modulate(self, n, cls) ==
    LET m == modulate_signal(self, cls) IN
    IF m.exc # "none" THEN [exc |-> m.exc, cls |-> "zero", draws |-> carrier_draws]
    ELSE [exc |-> "none", cls |-> m.cls, draws |-> carrier_draws + n]

\* _carrier_recovery: the band-pass [2 fc - 100, 2 fc + 100] must be designable
carrier_recovery_ok(self) ==
    /\ butter_ok(2 * self.carrier_freq - 100, self.sample_rate)
    /\ butter_ok(2 * self.carrier_freq + 100, self.sample_rate)

\* _am_demodulate up to the amplitude compensation
detect(self, n, cls) ==
    IF self.am_mode = "standard"
    THEN (IF ~butter_ok(5000, self.sample_rate) THEN [exc |-> "ValueError", cls |-> "zero"]
          \* demodulated -= mean(demodulated): a single sample becomes 0
          ELSE [exc |-> "none", cls |-> IF cls = "zero" \/ n = 1 THEN "zero" ELSE cls])
    ELSE IF ~carrier_recovery_ok(self) \/ ~butter_ok(5000, self.sample_rate)
    THEN [exc |-> "ValueError", cls |-> "zero"]
    \* demodulated * 2 / modulation_index: an array divided by 0 is nan or inf
    ELSE [exc |-> "none", cls |-> IF self.modulation_index = 0 THEN "nonfinite" ELSE cls]

\* the final division by numpy.max(numpy.abs(demodulated))
normalize(cls) == IF cls = "fin" THEN "fin" ELSE "nonfinite"

\* _am_demodulate: detection, de-emphasis (3 kHz low-pass), normalisation
am_demodulate(self, n, cls) ==
    LET d == detect(self, n, cls) IN
    IF d.exc # "none" THEN [exc |-> d.exc, cls |-> "zero"]
    ELSE IF self.pre_emphasis /\ ~butter_ok(3000, self.sample_rate)
    THEN [exc |-> "ValueError", cls |-> "zero"]
    ELSE [exc |-> "none", cls |-> normalize(d.cls)]

\* the stages a channel enters, function by function.  A stage that raises is
\* the last one entered.
\* _preprocess_audio: peak normalisation and the pre-emphasis filter
preprocess_stages(self) == <<"Preprocess">>

\* _am_modulate: the modulation of the mode's branch, then the channel noise (a
\* mode with no branch fails on the first line of the noise part)
modulate_stages(self) ==
    IF self.am_mode = "ssb" /\ ~butter_ok(self.carrier_freq, self.sample_rate)
    THEN <<"Modulate">>
    ELSE <<"Modulate", "InjectNoise">>

\* _am_demodulate with carrier recovery in both branches
demodulate_stages_recover_always(self, n, cls) ==
    LET d == detect(self, n, cls)
        recovered == carrier_recovery_ok(self)
    IN  <<"CarrierRecovery">>
        \o (IF ~recovered THEN <<>> ELSE <<"Demodulate">>)
        \o (IF d.exc # "none" THEN <<>> ELSE <<"De-emphasize">>)
        \o (IF am_demodulate(self, n, cls).exc # "none" THEN <<>> ELSE <<"Normalize">>)

\* _am_demodulate: envelope detection for standard; for every other mode carrier
\* recovery, then synchronous detection; then de-emphasis and normalisation
demodulate_stages(self, n, cls) ==
    LET d == detect(self, n, cls)
        recovered == self.am_mode = "standard" \/ carrier_recovery_ok(self)
    IN  (IF self.am_mode = "standard" THEN <<>> ELSE <<"CarrierRecovery">>)
        \o (IF ~recovered THEN <<>> ELSE <<"Demodulate">>)
        \o (IF d.exc # "none" THEN <<>> ELSE <<"De-emphasize">>)
        \o (IF am_demodulate(self, n, cls).exc # "none" THEN <<>> ELSE <<"Normalize">>)

\* the stages of one pass of the channel loop, with whether the pre-emphasis
\* filter and the de-emphasis filter were applied
channel_stages(self, n, peak) ==
    LET p == preprocess_audio(self, n, peak)
        m == am_modulate(self, n, p.cls)
        d == am_demodulate(self, n, m.cls)
    IN  [trace |->
            preprocess_stages(self)
            \o (IF p.exc # "none" THEN <<>> ELSE modulate_stages(self))
            \o (IF p.exc # "none" \/ m.exc # "none" THEN <<>>
                ELSE demodulate_stages(self, n, m.cls))
            \o (IF p.exc # "none" \/ m.exc # "none" \/ d.exc # "none" THEN <<>>
                ELSE <<"Done">>),
         pre_filter |-> self.pre_emphasis /\ p.exc = "none",
         de_filter |-> /\ self.pre_emphasis
                       /\ p.exc = "none" /\ m.exc = "none" /\ d.exc = "none"]

NoRng == [seed |-> 0, draws |-> 0]

\* the body of the channel loop of process for a channel of n samples with the
\* given peak, the generator being at r: the outcome and the generator after.
\* Finite output depends on the carrier and noise drawn from r on.
am_channel(self, n, peak, r) ==
    LET p  == preprocess_audio(self, n, peak)
        m  == am_modulate(self, n, p.cls)
        r2 == [r EXCEPT !.draws = r.draws + m.draws]
        d  == am_demodulate(self, n, m.cls)
    IN  IF p.exc # "none" THEN [exc |-> p.exc, rng |-> r, out |-> <<>>]
        ELSE IF m.exc # "none" THEN [exc |-> m.exc, rng |-> r2, out |-> <<>>]
        ELSE IF d.exc # "none" THEN [exc |-> d.exc, rng |-> r2, out |-> <<>>]
        ELSE [exc |-> "none", rng |-> r2,
              out |-> <<[len |-> n, cls |-> d.cls,
                         rng_at |-> IF d.cls = "fin" THEN r ELSE NoRng]>>]

\* the channel loop of process from channel c on
RECURSIVE am_loop(_, _, _, _, _, _)
am_loop(self, a, c, r, acc, st) ==
    IF c > Len(a.chans) THEN [exc |-> "none", rng |-> r, out |-> acc, stages |-> st]
    ELSE LET ch  == am_channel(self, a.n, a.chans[c], r)
             st2 == Append(st, channel_stages(self, a.n, a.chans[c]))
         IN  IF ch.exc # "none"
             THEN [exc |-> ch.exc, rng |-> ch.rng, out |-> <<>>, stages |-> st2]
             ELSE am_loop(self, a, c + 1, ch.rng, acc \o ch.out, st2)

AMBuffers ==
    {[n |-> n, chans |-> ch] :
        n \in 0..MaxAMSamples,
        ch \in UNION {[1..c -> {0, 1}] : c \in 1..MaxChannels}}

NoKept == [key |-> <<>>, out |-> <<>>]

\* EnhancedAMEffect.process: the whole call (it is synchronous and nothing else
\* runs during it)
AMCall(a, sr) ==
    /\ eff = "am" /\ pc = "idle" /\ result = NoResult
    /\ rng.draws < MaxDraws
    /\ LET self == [am EXCEPT !.sample_rate = sr]
           r    == am_loop(self, a, 1, rng, <<>>, <<>>)
       IN  /\ am' = self
           /\ rng' = r.rng
           /\ result' = IF r.exc = "none"
                        THEN [status |-> "ok", exc |-> "", out |-> r.out]
                        ELSE Raised(r.exc)
           /\ stages' = r.stages
    /\ audio' = a /\ samplerate' = sr
    /\ UNCHANGED <<eff, wave, dop, kept, pc, cur, processed>>

AMProcess(a, sr) == AMCall(a, sr) /\ UNCHANGED before

\* the same call made by a caller that first notes every field
AMProcessWatched(a, sr) == AMCall(a, sr) /\ before' = <<Fields>>

AMSetParams(param_name, param_value) ==
    /\ eff = "am" /\ pc = "idle" /\ result = NoResult
    /\ am' = EnhancedAMEffect_set_params(am, param_name, param_value)
    /\ UNCHANGED <<stages, before, eff, wave, dop, rng, kept, pc, audio, samplerate, cur, processed, result>>

\* numpy.random.seed(s) called by the code around the effect
np_random_seed(s) ==
    /\ eff = "am" /\ pc = "idle" /\ result = NoResult
    /\ rng' = [seed |-> s, draws |-> 0]
    /\ UNCHANGED <<stages, before, eff, wave, dop, am, kept, pc, audio, samplerate, cur, processed, result>>

\* a draw from the global generator by other code
np_random_draw ==
    /\ eff = "am" /\ pc = "idle" /\ result = NoResult
    /\ rng.draws < MaxDraws
    /\ rng' = [rng EXCEPT !.draws = rng.draws + 1]
    /\ UNCHANGED <<stages, before, eff, wave, dop, am, kept, pc, audio, samplerate, cur, processed, result>>

\* what a call was made with: buffer, rate, parameters and the seed in force
CallKey == [audio |-> audio, samplerate |-> samplerate, params |-> am, seed |-> rng.seed]

\* the caller keeps the returned buffer of a successful call to compare it
\* with a later one
KeepResult ==
    /\ eff = "am" /\ pc = "idle" /\ result.status = "ok"
    /\ kept' = [key |-> CallKey, out |-> result.out]
    /\ result' = NoResult
    /\ audio' = NoAudio /\ samplerate' = 0
    /\ stages' = NoStages /\ before' = NoBefore
    /\ UNCHANGED <<eff, wave, dop, am, rng, pc, cur, processed>>

-----------------------------------------------------------------------------
(* The rate converter: _oversample and _downsample on sample values.  Samples *)
(* are integers; the FIR taps are firwin's, in units of 1/TapScale, so a      *)
(* filtered sample is held multiplied by TapScale.                            *)

TapScale == 65536

\* scipy.signal.firwin(numtaps=31, cutoff=1/k, window='hamming') * TapScale
firwin(k) ==
    IF k = 2 THEN
        <<-111, 0, 193, 0, -441, 0, 924, 0, -1755, 0, 3218, 0, -6353, 0, 20684, 32821,
          20684, 0, -6353, 0, 3218, 0, -1755, 0, 924, 0, -441, 0, 193, 0, -111>>
    ELSE IF k = 4 THEN
        <<-79, -135, -136, 0, 312, 649, 654, 0, -1243, -2379, -2278, 0, 4498, 10044,
          14645, 16431, 14645, 10044, 4498, 0, -2278, -2379, -1243, 0, 654, 649, 312,
          0, -136, -135, -79>>
    ELSE
        <<-42, -95, -177, -291, -406, -456, -352, 0, 669, 1673, 2960, 4410, 5845, 7064,
          7882, 8171, 7882, 7064, 5845, 4410, 2960, 1673, 669, 0, -352, -456, -406,
          -291, -177, -95, -42>>

\* the terms b[1] x[n1] + ... + b[m1] x[n1 - m1 + 1] of one filtered sample
RECURSIVE fir_sum(_, _, _, _)
fir_sum(b, x, n1, m1) ==
    IF m1 = 0 THEN 0 ELSE b[m1] * x[n1 - m1 + 1] + fir_sum(b, x, n1, m1 - 1)

\* scipy.signal.lfilter(b, 1, x): y[n] = sum over m of b[m] * x[n - m]
lfilter(b, x) == [n1 \in 1..Len(x) |-> fir_sum(b, x, n1, Min2(Len(b), n1))]

\* _oversample: zero-stuffing to len * oversample_rate, then the low-pass FIR
oversample(self, waveform) ==
    LET k == self.oversample_rate
        oversampled_wave ==
            [j1 \in 1..(Len(waveform) * k) |->
                IF (j1 - 1) % k = 0 THEN waveform[(j1 - 1) \div k + 1] ELSE 0]
    IN  lfilter(firwin(k), oversampled_wave)

\* _downsample: waveform[::oversample_rate]
downsample(self, waveform) ==
    LET k == self.oversample_rate IN
    [n1 \in 1..StrideLen(Len(waveform), k) |-> waveform[(n1 - 1) * k + 1]]

\* channels fed to the converter: constant levels and a unit impulse
WaveInputs ==
    UNION {{[i \in 1..L |-> 1], [i \in 1..L |-> -1], [i \in 1..L |-> IF i = 1 THEN 1 ELSE 0]} :
           L \in 0..MaxWave}

NoWave == [x |-> <<>>, up |-> <<>>, down |-> <<>>, stage |-> "none"]

RateOversample ==
    /\ eff = "rate" /\ wave.stage = "input"
    /\ wave' = [wave EXCEPT !.up = oversample(dop, wave.x), !.stage = "up"]
    /\ UNCHANGED <<stages, before, eff, dop, am, rng, kept, pc, audio, samplerate, cur, processed, result>>

RateDownsample ==
    /\ eff = "rate" /\ wave.stage = "up"
    /\ wave' = [wave EXCEPT !.down = downsample(dop, wave.up), !.stage = "down"]
    /\ UNCHANGED <<stages, before, eff, dop, am, rng, kept, pc, audio, samplerate, cur, processed, result>>

-----------------------------------------------------------------------------
\* the caller takes the returned buffer (or the exception) of the finished call;
\* the effect object keeps only its fields
TakeResult ==
    /\ pc = "idle" /\ result # NoResult
    /\ result' = NoResult
    /\ audio' = NoAudio /\ samplerate' = 0
    /\ cur' = NoChannel /\ processed' = <<>>
    /\ stages' = NoStages /\ before' = NoBefore
    /\ UNCHANGED <<eff, wave, dop, am, rng, kept, pc>>

InitCall ==
    /\ pc = "idle"
    /\ audio = NoAudio
    /\ samplerate = 0
    /\ cur = NoChannel
    /\ processed = <<>>
    /\ result = NoResult
    /\ kept = NoKept
    /\ stages = NoStages
    /\ before = NoBefore

\* one effect object is constructed, with any keyword overrides
Init ==
    /\ \/ /\ eff = "doppler"
          /\ dop \in {DopplerEffect_init(s, c, e, k, r) :
                         s \in SpeedValues, c \in SoundSpeedValues, e \in BOOLEAN,
                         k \in RateValues, r \in RangeValues}
          /\ am = AMDefault
       \/ /\ eff = "am"
          /\ am \in {EnhancedAMEffect_init(f, m, md, snr, pe) :
                        f \in CarrierValues, m \in ModIndexValues, md \in ModeValues,
                        snr \in SnrValues, pe \in BOOLEAN}
          /\ dop = DopplerDefault
    /\ rng = [seed |-> 1, draws |-> 0]
    /\ wave = NoWave
    /\ InitCall

Next ==
    \/ \E a \in Buffers, sr \in DopplerRates : DopplerProcess(a, sr)
    \/ DopplerOversample
    \/ DopplerShift
    \/ DopplerDownsample
    \/ DopplerReturn
    \/ TakeResult
    \/ \E v \in SpeedValues : DopplerSetParams("speed", v)
    \/ \E v \in SoundSpeedValues : DopplerSetParams("sound_speed", v)
    \/ \E v \in RateValues : DopplerSetParams("oversample_rate", v)
    \/ \E v \in BOOLEAN : DopplerSetParams("oversample_enable", v)
    \/ \E v \in RangeValues : DopplerSetParams("freq_shift_range", v)
    \/ \E a \in AMBuffers, sr \in AMRates : AMProcess(a, sr)
    \/ \E v \in ModIndexValues : AMSetParams("modulation_index", v)
    \/ \E v \in SnrValues : AMSetParams("noise_snr", v)
    \/ \E v \in ModeValues : AMSetParams("am_mode", v)
    \/ \E v \in CarrierValues : AMSetParams("carrier_freq", v)
    \/ \E v \in BOOLEAN : AMSetParams("pre_emphasis", v)
    \/ \E v \in StoredRateValues : AMSetParams("sample_rate", v)

Spec == Init /\ [][Next]_vars

\* the default EnhancedAMEffect under repeated calls, reseeding and foreign draws
InitSeed ==
    /\ eff = "am"
    /\ am \in {EnhancedAMEffect_init(10000, 7, md, 35, TRUE) : md \in {"standard", "dsb-sc"}}
    /\ dop = DopplerDefault
    /\ rng \in {[seed |-> s, draws |-> 0] : s \in Seeds}
    /\ wave = NoWave
    /\ InitCall

NextSeed ==
    \/ \E a \in AMBuffers, sr \in AMRates : AMProcess(a, sr)
    \/ KeepResult
    \/ TakeResult
    \/ \E s \in Seeds : np_random_seed(s)
    \/ np_random_draw

SpecSeed == InitSeed /\ [][NextSeed]_vars

\* the rate converter alone: a DopplerEffect with oversample_rate k and a channel
InitRate ==
    /\ eff = "rate"
    /\ dop \in {DopplerEffect_init(30, 343, TRUE, k, <<20, 15000>>) : k \in {2, 4, 8}}
    /\ am = AMDefault
    /\ rng = [seed |-> 1, draws |-> 0]
    /\ wave \in {[x |-> x, up |-> <<>>, down |-> <<>>, stage |-> "input"] : x \in WaveInputs}
    /\ InitCall

NextRate == RateOversample \/ RateDownsample

SpecRate == InitRate /\ [][NextRate]_vars

\* either effect under a caller that notes the fields and the generator before
\* every process call
NextFrame ==
    \/ \E a \in Buffers, sr \in DopplerRates : DopplerProcessWatched(a, sr)
    \/ DopplerOversample
    \/ DopplerShift
    \/ DopplerDownsample
    \/ DopplerReturn
    \/ TakeResult
    \/ \E v \in SpeedValues : DopplerSetParams("speed", v)
    \/ \E v \in RateValues : DopplerSetParams("oversample_rate", v)
    \/ \E v \in BOOLEAN : DopplerSetParams("oversample_enable", v)
    \/ \E a \in AMBuffers, sr \in AMRates : AMProcessWatched(a, sr)
    \/ \E v \in ModeValues : AMSetParams("am_mode", v)

SpecFrame == Init /\ [][NextFrame]_vars

-----------------------------------------------------------------------------
(* Claims about DopplerEffect *)

\* a Doppler process call has finished its frequency shift of one channel
DopplerShifted == eff = "doppler" /\ pc = "dop_downsample"
\* the tone of the channel that was just shifted (0: broadband)
ShiftedTone == audio.chans[Len(processed) + 1]
\* a process call has finished and its outcome is not yet taken
CallDone == pc = "idle" /\ result # NoResult
ShapeKept ==
    /\ result.status = "ok"
    /\ Len(result.out) = Len(audio.chans)
    /\ \A c \in 1..Len(result.out) : result.out[c].len = audio.n

\* C2: whenever the stored velocity equals the stored propagation speed, a
\* finished Doppler process call on a buffer with at least one channel has
\* ended in an error and returned no buffer.
C2_VelocityEqualsSpeedRaises ==
    (CallDone /\ eff = "doppler" /\ Len(audio.chans) >= 1
        /\ dop.speed = dop.sound_speed)
    => (result.status = "error" /\ result.out = <<>>)

\* C6 as stated: with velocity 0 every bin of the shifted spectrum equals the
\* corresponding bin of the input spectrum.
C6_ZeroVelocityIdentity ==
    (DopplerShifted /\ dop.speed = 0)
    => cur.shifted = fft_wave_of(audio.n, ShiftedTone, cur.len)

\* C6 amended: with velocity 0 every bin index maps to itself, and a bin of the
\* shifted spectrum equals the input bin when the bin's frequency lies in
\* [max(f_lo, 20), min(f_hi, nyquist - 1)] and is zero otherwise (DC, bins
\* below 20 Hz, bins above the upper bound and the negative-frequency half).
C6_ZeroVelocityMaskedIdentity ==
    (DopplerShifted /\ dop.speed = 0)
    => LET N  == cur.len
           sr == dop.sample_rate
           lo == Max2(dop.freq_shift_range[1], 20)
           hi == dop.freq_shift_range[2]
           x  == fft_wave_of(audio.n, ShiftedTone, N)
       IN  /\ Len(cur.shifted) = N
           /\ \A i \in 0..(N - 1) :
                cur.shifted[i + 1] =
                    IF /\ 2 * i < N
                       /\ i * sr >= lo * N
                       /\ i * sr <= hi * N
                       /\ 2 * i * sr <= (sr - 2) * N
                    THEN x[i + 1] ELSE 0

\* C6 witness: velocity 0, a bin with input energy was zeroed by the mask and
\* another bin was kept.
C6_Witness ==
    /\ DopplerShifted /\ dop.speed = 0
    /\ \E i \in 1..cur.len :
         fft_wave_of(audio.n, ShiftedTone, cur.len)[i] # 0 /\ cur.shifted[i] = 0
    /\ \E i \in 1..cur.len : cur.shifted[i] # 0

\* the tone of the channel just shifted lies on a bin inside the valid range
ToneInBand ==
    /\ DopplerShifted /\ ShiftedTone >= 1
    /\ validate_freq_range(dop, cur.len, ShiftedTone)

NoLaterCollision(c, v, N, i) ==
    \A j \in (i + 1)..(N - 1) :
        RoundHalfEven(j * c, c - v) # RoundHalfEven(i * c, c - v)

C9_StoredDopplerParamsValid ==
    eff = "doppler" =>
        /\ dop.speed >= -100 /\ dop.speed <= 100
        /\ dop.oversample_rate \in {1, 2, 4, 8, 16}

-----------------------------------------------------------------------------
(* Claims about the effect contract and EnhancedAMEffect *)

\* C1: every finished process call on a buffer with at least one channel (the
\* Doppler factor among 1, 2, 4, 8, 16 and v # c; the AM mode among the three)
\* returned a buffer with the input's channel count and sample count.
C1_ShapePreserved ==
    (/\ CallDone /\ Len(audio.chans) >= 1
     /\ eff = "doppler" => (dop.oversample_rate \in {1, 2, 4, 8, 16}
                            /\ dop.speed # dop.sound_speed)
     /\ eff = "am" => am.am_mode \in {"standard", "dsb-sc", "ssb"})
    => ShapeKept

\* C3: with modulation_index 0 and mode dsb-sc or ssb a finished AM process
\* call has ended in an error.
C3_ZeroIndexRaises ==
    (CallDone /\ eff = "am" /\ Len(audio.chans) >= 1
        /\ am.modulation_index = 0 /\ am.am_mode \in {"dsb-sc", "ssb"})
    => result.status = "error"

\* C4: a buffer returned by AM process holds only finite samples (modulation
\* index not 0, any of the three modes, at least two samples per channel,
\* silent channels included).
C4_OutputFinite ==
    (CallDone /\ eff = "am" /\ result.status = "ok" /\ audio.n >= 2
        /\ am.modulation_index # 0 /\ am.am_mode \in {"standard", "dsb-sc", "ssb"})
    => \A c \in 1..Len(result.out) : result.out[c].cls = "fin"

\* C5: a successful AM process call made with the same buffer, rate, parameters
\* and seed as the kept earlier call returns the same output.
C5_SameSeedSameOutput ==
    (CallDone /\ eff = "am" /\ result.status = "ok" /\ kept # NoKept
        /\ kept.key = CallKey)
    => result.out = kept.out

\* C8: Downsample(Upsample(x, k), k) has the length of x and, past the filter's
\* transient, equals x delayed by some D within the filter's length, to within
\* a ripple of a tenth of full scale (so without a 1/k scaling).
C8_RoundTripRestoresInput ==
    (eff = "rate" /\ wave.stage = "down")
    => LET k == dop.oversample_rate
           t == 30 \div k + 1
       IN  /\ Len(wave.down) = Len(wave.x)
           /\ \E D \in 0..t :
                \A n \in (t + 1)..Len(wave.x) :
                    LET e == wave.down[n] - TapScale * wave.x[n - D]
                    IN  10 * e <= TapScale /\ 10 * e >= -TapScale

\* C10: the stored modulation index lies in [0, 1], the stored SNR in [0, 40] dB
\* and the stored mode is standard, dsb-sc or ssb.
C10_StoredAMParamsValid ==
    eff = "am" =>
        /\ am.modulation_index >= 0 /\ am.modulation_index <= 10
        /\ am.noise_snr >= 0 /\ am.noise_snr <= 40
        /\ am.am_mode \in {"standard", "dsb-sc", "ssb"}

-----------------------------------------------------------------------------
(* Claims about the carrier, the frame of process and the stage order *)

\* an AM process call reached the modulation of at least one channel
Modulated ==
    \E c \in 1..Len(stages) :
        \E k \in 1..Len(stages[c].trace) : stages[c].trace[k] = "Modulate"

\* the last stage a channel entered
LastStage(c) == stages[c].trace[Len(stages[c].trace)]

\* C11: whenever an AM process call has modulated a channel, the carrier
\* frequency it used lies in [20, samplerate/2 - 100] for the sample rate of
\* that call.
C11_CarrierWithinCallRate ==
    (CallDone /\ eff = "am" /\ Modulated)
    => (am.carrier_freq >= 20 /\ 2 * am.carrier_freq <= samplerate - 200)

\* C12: with the carrier frequency inside [20, samplerate/2 - 100] and mode
\* dsb-sc or ssb, no channel of a finished AM process call stopped in carrier
\* recovery.
C12_RecoveryNeverCrashes ==
    (CallDone /\ eff = "am" /\ am.am_mode \in {"dsb-sc", "ssb"}
        /\ am.carrier_freq >= 20 /\ 2 * am.carrier_freq <= samplerate - 200)
    => \A c \in 1..Len(stages) : LastStage(c) # "CarrierRecovery"

\* C13: when a process call of either effect has finished, with a buffer or
\* with an error, every stored field of the effect and the global generator
\* are as the caller noted them when the call began.
C13_ProcessLeavesFieldsAlone ==
    (CallDone /\ eff \in {"doppler", "am"} /\ before # NoBefore) => before = <<Fields>>

\* the stage order of the chain for a mode
ExpectedStages(mode) ==
    <<"Preprocess", "Modulate", "InjectNoise">>
    \o (IF mode \in {"dsb-sc", "ssb"} THEN <<"CarrierRecovery">> ELSE <<>>)
    \o <<"Demodulate", "De-emphasize", "Normalize", "Done">>

IsPrefix(s, t) == Len(s) <= Len(t) /\ \A i \in 1..Len(s) : s[i] = t[i]

\* C14: every channel an AM process call worked on entered its stages in the
\* order Preprocess, Modulate, InjectNoise, CarrierRecovery (dsb-sc and ssb
\* only), Demodulate, De-emphasize, Normalize, Done, each at most once and
\* stopping only where a stage raised; a channel that reached Done entered all
\* of them, and its de-emphasis filter was applied exactly when its
\* pre-emphasis filter was; a call that returned a buffer took every channel
\* to Done.
C14_StagesInOrder ==
    (CallDone /\ eff = "am")
    => /\ \A c \in 1..Len(stages) :
            /\ Len(stages[c].trace) >= 1
            /\ IsPrefix(stages[c].trace, ExpectedStages(am.am_mode))
            /\ LastStage(c) = "Done" =>
                  /\ stages[c].trace = ExpectedStages(am.am_mode)
                  /\ stages[c].de_filter = stages[c].pre_filter
            /\ stages[c].de_filter => stages[c].pre_filter
       /\ result.status = "ok" =>
            /\ Len(stages) = Len(audio.chans)
            /\ \A c \in 1..Len(stages) : LastStage(c) = "Done"

\* C14 witness: a two-channel call in a suppressed-carrier mode with
\* pre-emphasis on returned a buffer, each channel having passed through
\* carrier recovery.
C14_Witness ==
    /\ CallDone /\ eff = "am" /\ result.status = "ok"
    /\ am.am_mode \in {"dsb-sc", "ssb"}
    /\ Len(stages) = 2
    /\ \A c \in 1..2 : stages[c].trace[4] = "CarrierRecovery" /\ stages[c].de_filter

\* the source bins whose scaled index is d (none when the factor is infinite)
C15_Sources(N, d) ==
    LET f == doppler_factor(dop) IN
    {i \in 0..(N - 1) : f.k = "fin" /\ RoundHalfEven(i * f.n, f.d) = d}

\* C15: after the remap over N bins, every destination d in [0, N) holds
\* spectrum[i] * mask[i] for the largest source i with round(i * factor) = d,
\* and 0 when no source maps to d.
C15_RemapLastWriteWins ==
    DopplerShifted
    => LET N == cur.len
           x == fft_wave_of(audio.n, ShiftedTone, N)
       IN  /\ Len(cur.shifted) = N
           /\ \A d \in 0..(N - 1) :
                LET srcs == C15_Sources(N, d) IN
                cur.shifted[d + 1] =
                    IF srcs = {} THEN 0
                    ELSE LET i == CHOOSE i \in srcs : \A j \in srcs : j <= i
                         IN  IF validate_freq_range(dop, N, i) THEN x[i + 1] ELSE 0

\* C15 witness: two source bins were written to one destination and the later
\* one's value is what the destination holds.
C15_Witness ==
    /\ DopplerShifted
    /\ \E d \in 0..(cur.len - 1) :
         /\ Cardinality(C15_Sources(cur.len, d)) >= 2
         /\ cur.shifted[d + 1] # 0

\* C16: a Doppler process call with oversampling enabled and factor 1 (v # c,
\* at least one channel and one sample) returned a buffer of the input's shape.
C16_FactorOneIsNoOp ==
    (CallDone /\ eff = "doppler" /\ dop.oversample_enable /\ dop.oversample_rate = 1
        /\ Len(audio.chans) >= 1 /\ audio.n >= 1 /\ dop.speed # dop.sound_speed)
    => ShapeKept

\* C17: while a channel's frequency shift is underway the stored rate is the
\* input rate times k with oversampling enabled (the input rate otherwise), for
\* the first channel and every later one, and when process has returned a
\* buffer the stored rate is the input rate.
C17_WorkingRateNotCompounded ==
    /\ (eff = "doppler" /\ pc \in {"dop_shift", "dop_downsample"})
       => dop.sample_rate = IF dop.oversample_enable
                            THEN samplerate * dop.oversample_rate ELSE samplerate
    /\ (CallDone /\ eff = "doppler" /\ result.status = "ok")
       => dop.sample_rate = samplerate

\* C17 witness: the second channel of a call is about to be shifted with
\* oversampling by k >= 2 at the rate input rate * k.
C17_Witness ==
    /\ eff = "doppler" /\ pc = "dop_shift" /\ Len(processed) = 1
    /\ dop.oversample_enable /\ dop.oversample_rate >= 2
    /\ dop.sample_rate = samplerate * dop.oversample_rate

=============================================================================
